---- MODULE Spec2Model ----
(***************************************************************************)
(* A model of ytdlp-icli.py, the interactive command line wrapper for      *)
(* yt-dlp: main's linear workflow (output directory check, dependency      *)
(* checks, URL prompt, probe, three menus, download, verification) and the *)
(* pure helpers it is built from (format classification, default cursor    *)
(* index, thumbnail flags, format expression, predicted output path).      *)
(*                                                                         *)
(* Python strings whose characters matter (format ids, the file name, the  *)
(* format expression) are sequences of one-character strings, so that      *)
(* str.strip, str.isdigit, str.join and Path.with_suffix are computed, not *)
(* assumed.  Strings that are only compared or passed on (codec names,     *)
(* command line flags, console lines) are TLA+ strings.                    *)
(***************************************************************************)
EXTENDS Naturals, Integers, Sequences, FiniteSets, TLC

VARIABLES
    pc,                 \* position of main(), "terminated" once the process ended
    exit_kind,          \* how the process ended: "none" while it runs
    CONFIG,             \* the module-level CONFIG dictionary
    outdir_exists,      \* file system: CONFIG["output_dirpath"] exists
    checked,            \* binaries whose check_dependency_path returned True
    running,            \* child processes started and not yet waited for
    started,            \* every child process started so far, in order
    process,            \* the probe's CompletedProcess, once it has exited
    filepath_exists,    \* file system: filepath exists after the download
    console,            \* what was written to the terminal, in order
    yturl,              \* main's yturl
    formats,            \* request_ytdlp_metadata's result
    menu,               \* the pick menu on screen, NoMenu when there is none
    audio_format,       \* main's audio_format
    video_format,       \* main's video_format
    thumbnail_format,   \* main's thumbnail_format: <<value, ytdlp_arg>>
    download,           \* the argv of the download invocation, and filepath
    unit                \* input and result of a helper applied on its own

vars == <<pc, exit_kind, CONFIG, outdir_exists, checked, running, started,
          process, filepath_exists, console, yturl, formats, menu, audio_format, video_format, thumbnail_format,
          download, unit>>

(***************************************************************************)
(* Bounds of the model.                                                    *)
(***************************************************************************)
\* longest "formats" list a probe returns in the workflow specification
MaxProbeFormats == 2
\* longest "formats" list given to the classifier on its own
MaxFormats == 2
\* longest raw list behind the candidate lists given to the menus on their own
MaxCandidates == 2

(***************************************************************************)
(* Python values.                                                          *)
(***************************************************************************)
\* Python's None: the one value that is no string.  Strings are sequences
\* of one-character strings; no string has an element longer than one
\* character, so this sequence equals none of them.
None == <<"None">>

\* bool(v) for a value that is None or a str
Truthy(v) == v # None /\ v # <<>>

Digits == {"0", "1", "2", "3", "4", "5", "6", "7", "8", "9"}
Whitespace == {" "}

\* str.isdigit(): non-empty and every character a digit
IsDigit(s) == Len(s) > 0 /\ \A i \in 1..Len(s) : s[i] \in Digits

RECURSIVE LStrip(_)
\* str.lstrip()
LStrip(s) == IF s # <<>> /\ Head(s) \in Whitespace THEN LStrip(Tail(s)) ELSE s

RECURSIVE RStrip(_)
\* str.rstrip()
RStrip(s) ==
    IF s # <<>> /\ s[Len(s)] \in Whitespace
    THEN RStrip(SubSeq(s, 1, Len(s) - 1))
    ELSE s

\* str.strip()
Strip(s) == RStrip(LStrip(s))

RECURSIVE JoinWith(_, _)
\* sep.join(parts)
JoinWith(sep, parts) ==
    IF parts = <<>> THEN <<>>
    ELSE IF Len(parts) = 1 THEN parts[1]
    ELSE parts[1] \o sep \o JoinWith(sep, Tail(parts))

\* filter(bool, values), as a list
FilterBool(values) == SelectSeq(values, LAMBDA v : Truthy(v))

\* str.rfind("."), 1-based, 0 when there is no dot
RFindDot(name) ==
    LET dots == {i \in 1..Len(name) : name[i] = "."}
    IN  IF dots = {} THEN 0 ELSE CHOOSE i \in dots : \A j \in dots : j <= i

\* PurePath.suffix: the last dot and what follows it, unless the dot is the
\* first or the last character of the name
PathSuffix(name) ==
    LET i == RFindDot(name)
    IN  IF 1 < i /\ i < Len(name) THEN SubSeq(name, i, Len(name)) ELSE <<>>

\* PurePath.with_suffix(suffix), for a path that is a bare file name
WithSuffix(name, suffix) ==
    LET old == PathSuffix(name)
    IN  SubSeq(name, 1, Len(name) - Len(old)) \o suffix

(***************************************************************************)
(* Literals of the program.                                                *)
(***************************************************************************)
s_best == <<"b", "e", "s", "t">>
s_embed == <<"e", "m", "b", "e", "d">>
s_bestaudio == <<"b", "e", "s", "t", "a", "u", "d", "i", "o">>
s_bestvideo == <<"b", "e", "s", "t", "v", "i", "d", "e", "o">>
s_plus == <<"+">>
s_mp3 == <<".", "m", "p", "3">>
s_mp4 == <<".", "m", "p", "4">>

\* the CONFIG dictionary as shipped
ShippedConfig ==
    [ffmpeg_bin |-> "ffmpeg", ytdlp_bin |-> "yt-dlp",
     audio_format |-> s_best, video_format |-> s_best,
     thumbnail_format |-> None]

(***************************************************************************)
(* request_ytdlp_metadata: the classification of the probed formats.       *)
(***************************************************************************)
\* fmt.get("format_id", "").strip().isdigit()
HasDigitId(fmt) == IsDigit(Strip(fmt.format_id))

\* the video branch tested before the audio branch
ClassOfElifVideoFirst(fmt) ==
    IF ~HasDigitId(fmt) THEN "skip"
    ELSE IF fmt.vcodec # "none" THEN "video"
    ELSE IF fmt.acodec # "none" THEN "audio"
    ELSE "skip"

\* one pass of the loop over metadata["formats"]: the list the format is
\* appended to
ClassOf(fmt) ==
    IF ~HasDigitId(fmt) THEN "skip"
    ELSE IF fmt.acodec # "none" THEN "audio"
    ELSE IF fmt.vcodec # "none" THEN "video"
    ELSE "skip"

RECURSIVE ClassifyLoop(_, _, _)
\* the loop over metadata["formats"], appending in order
ClassifyLoop(fmts, audio, video) ==
    IF fmts = <<>> THEN [audio |-> audio, video |-> video]
    ELSE LET fmt == Head(fmts)
             c == ClassOf(fmt)
         IN  ClassifyLoop(Tail(fmts),
                          IF c = "audio" THEN Append(audio, fmt) ELSE audio,
                          IF c = "video" THEN Append(video, fmt) ELSE video)

RECURSIVE ImageLoop(_, _)
\* the loop over metadata["thumbnails"]
ImageLoop(thumbs, image) ==
    IF thumbs = <<>> THEN image
    ELSE ImageLoop(Tail(thumbs),
                   IF Truthy(Head(thumbs).resolution)
                   THEN Append(image, Head(thumbs)) ELSE image)

\* the formats dictionary request_ytdlp_metadata returns for parsed metadata
Classify(metadata) ==
    LET av == ClassifyLoop(metadata.formats, <<>>, <<>>)
    IN  [audio |-> av.audio, video |-> av.video,
         image |-> ImageLoop(metadata.thumbnails, <<>>),
         metadata |-> metadata]

\* main's formats before the probe returned
NoFormats ==
    [audio |-> <<>>, video |-> <<>>, image |-> <<>>,
     metadata |-> [filename |-> <<>>, formats |-> <<>>, thumbnails |-> <<>>]]

(***************************************************************************)
(* pick_yt_*_format: the options and the initial cursor index.             *)
(***************************************************************************)
\* one pick.Option per format, its value the format id
FormatOptions(fmts) == [i \in 1..Len(fmts) |-> [value |-> fmts[i].format_id]]

AudioOptions(fmts) ==
    <<[value |-> s_bestaudio], [value |-> None]>> \o FormatOptions(fmts)

VideoOptions(fmts) ==
    <<[value |-> s_bestvideo], [value |-> None]>> \o FormatOptions(fmts)

ThumbnailOptions == <<[value |-> s_best], [value |-> s_embed], [value |-> None]>>

RECURSIVE LastMatchLoop(_, _, _, _)
LastMatchLoop(options, default, ind, default_index) ==
    IF ind >= Len(options) THEN default_index
    ELSE LastMatchLoop(options, default, ind + 1,
                       IF options[ind + 1].value = default THEN ind
                       ELSE default_index)

\* the loop without its break: the last matching option wins
DefaultIndexNoBreak(options, default, builtin) ==
    IF default # None THEN LastMatchLoop(options, default, 0, builtin)
    ELSE builtin

RECURSIVE EnumerateLoop(_, _, _, _)
\* for ind, option in enumerate(options): the first match sets the index
\* and breaks
EnumerateLoop(options, default, ind, default_index) ==
    IF ind >= Len(options) THEN default_index
    ELSE IF options[ind + 1].value = default THEN ind
    ELSE EnumerateLoop(options, default, ind + 1, default_index)

\* default_index (0-based), from its built-in value
DefaultIndex(options, default, builtin) ==
    IF default # None THEN EnumerateLoop(options, default, 0, builtin)
    ELSE builtin

\* what pick.pick is called with
Menu(title, options, default, builtin) ==
    [title |-> title, options |-> options, default |-> default,
     default_index |-> DefaultIndex(options, default, builtin)]

AudioMenu(fmts, default) == Menu("Select audio", AudioOptions(fmts), default, 0)

VideoMenu(fmts, default) == Menu("Select video", VideoOptions(fmts), default, 0)

ThumbnailMenu(default) == Menu("Select thumbnail", ThumbnailOptions, default, 2)

\* no menu on screen
NoMenu == [title |-> "", options |-> <<>>, default |-> None, default_index |-> 0]

\* "embed" handled like "best"
ThumbnailArgsEmbedAsBest(value) ==
    IF value = s_best \/ value = s_embed
    THEN <<"--write-thumbnail", "--convert-thumbnails", "jpg">>
    ELSE <<>>

\* ytdlp_arg of pick_yt_thumbnail_format for the selected value
ThumbnailArgs(value) ==
    IF value = s_best THEN <<"--write-thumbnail", "--convert-thumbnails", "jpg">>
    ELSE IF value = s_embed THEN <<"--embed-thumbnail">>
    ELSE <<>>

(***************************************************************************)
(* main: the download invocation built from the three selections.          *)
(***************************************************************************)
\* audio only whenever some audio is selected
AudioOnlyIgnoringVideo(audio, video) == Truthy(audio)

\* audio_only = (audio_format and not video_format), as the if reads it
AudioOnly(audio, video) == Truthy(audio) /\ ~Truthy(video)

\* ytdlp_args: the thumbnail flags, then the flags of the mode
YtdlpArgs(thumbnail_args, audio_only) ==
    thumbnail_args \o (IF audio_only THEN <<"-x", "--audio-format", "mp3">>
                       ELSE <<"--merge-output-format", "mp4">>)

\* filepath: Path(filename) with the suffix of the mode
PredictedPath(filename, audio_only) ==
    WithSuffix(filename, IF audio_only THEN s_mp3 ELSE s_mp4)

\* the selections joined with nothing between them
FormatExpressionNoSeparator(audio, video) ==
    JoinWith(<<>>, FilterBool(<<audio, video>>))

\* "+".join(filter(bool, [audio_format, video_format]))
FormatExpression(audio, video) == JoinWith(s_plus, FilterBool(<<audio, video>>))

\* the download invocation: the argv of ytdlp_download and main's filepath
Invocation(config, url, filename, audio, video, thumbnail) ==
    [bin |-> config.ytdlp_bin,
     fmt |-> FormatExpression(audio, video),
     yturl |-> url,
     ytdlp_args |-> YtdlpArgs(thumbnail[2], AudioOnly(audio, video)),
     filepath |-> PredictedPath(filename, AudioOnly(audio, video)),
     invoked |-> TRUE]

\* no download invocation yet
NoDownload ==
    [bin |-> "", fmt |-> <<>>, yturl |-> <<>>, ytdlp_args |-> <<>>,
     filepath |-> <<>>, invoked |-> FALSE]

(***************************************************************************)
(* Inputs: what the environment (file system, child processes, user) can   *)
(* hand to the program.                                                    *)
(***************************************************************************)
SeqsUpTo(S, n) == UNION {[1..k -> S] : k \in 0..n}

\* how starting a binary with no arguments can end: it ran (whatever its
\* exit status), FileNotFoundError, or another OSError
DepOutcomes == {"ran", "FileNotFoundError", "PermissionError"}

\* what the user types at the URL prompt
UrlInputs == {<<"u">>, <<" ", "u", " ">>}

\* exit statuses of the probe
ProbeReturnCodes == {0, 1}

\* metadata["filename"]
Filenames ==
    {<<"c", "l", "i", "p", ".", "w", "e", "b", "m">>,
     <<"c", "l", "i", "p">>,
     <<"a", ".", "b", ".", "c">>,
     <<".", "r", "c">>}

\* metadata["thumbnails"]
ThumbnailLists ==
    {<<>>, <<[resolution |-> None], [resolution |-> <<"1", "x", "1">>]>>}

\* formats of a probe in the workflow: an audio stream, a video stream, a
\* stream with both codecs whose id carries white space, an aggregate
\* format with a non-numeric id
ProbeFormats ==
    {[format_id |-> <<"1", "4", "0">>, acodec |-> "opus", vcodec |-> "none"],
     [format_id |-> <<"1", "3", "7">>, acodec |-> "none", vcodec |-> "avc1"],
     [format_id |-> <<" ", "1", "8">>, acodec |-> "mp4a", vcodec |-> "avc1"],
     [format_id |-> <<"h", "l", "s">>, acodec |-> "mp4a", vcodec |-> "none"]}

ProbeResults ==
    [filename : Filenames,
     formats : SeqsUpTo(ProbeFormats, MaxProbeFormats),
     thumbnails : ThumbnailLists]

\* formats given to the classifier on its own: every id with every pair of
\* codecs
FormatIds ==
    {<<"1", "8">>, <<" ", "1", "8", " ">>, <<"h", "l", "s">>, <<"1", "a">>, <<>>}

RawFormats == [format_id : FormatIds, acodec : {"none", "opus"}, vcodec : {"none", "avc1"}]

\* configured defaults given to the menus on their own
AudioDefaults == {None, s_best, s_bestaudio, <<"1", "4", "0">>, <<" ", "1", "8">>}

VideoDefaults == {None, s_best, s_bestvideo, <<"1", "3", "7">>}

ThumbnailDefaults == {None, s_best, s_embed, <<"j", "p", "g">>}

(***************************************************************************)
(* Child processes.                                                        *)
(***************************************************************************)
\* no probe has exited yet
NoProcess == [exited |-> FALSE, returncode |-> 0]

\* the child is started and never waited for
WaitedNever(children, child) == children

\* subprocess.run / Popen.wait returned: the child has exited
Waited(children, child) == children \ {child}

\* subprocess.run / Popen started the child
Started(children, child) == children \cup {child}

(***************************************************************************)
(* main, cut at the points where it blocks: on a child process, on input() *)
(* and on pick.pick().  Each action is the code between two such points.   *)
(***************************************************************************)
Init ==
    /\ pc = "start"
    /\ exit_kind = "none"
    /\ CONFIG = ShippedConfig
    /\ outdir_exists \in BOOLEAN
    /\ checked = {}
    /\ running = {}
    /\ started = <<>>
    /\ process = NoProcess
    /\ filepath_exists = FALSE
    /\ console = <<>>
    /\ yturl = <<>>
    /\ formats = NoFormats
    /\ menu = NoMenu
    /\ audio_format = None
    /\ video_format = None
    /\ thumbnail_format = <<None, <<>>>>
    /\ download = NoDownload
    /\ unit = NoFormats.metadata

\* main going on after a failed check instead of returning
CheckDependencyNoReturn(children, expected_path, error_message, outcome, said, waiting) ==
    /\ console' = console \o said \o <<<<"$", expected_path>>>>
                  \o (IF outcome = "FileNotFoundError"
                      THEN <<<<error_message>>>> ELSE <<>>)
    /\ running' = IF outcome = "ran" THEN Started(children, <<expected_path>>)
                  ELSE children
    /\ started' = IF outcome = "ran" THEN Append(started, <<expected_path>>)
                  ELSE started
    /\ pc' = waiting
    /\ exit_kind' = "none"

\* check_dependency_path(expected_path, error_message) up to the point where
\* it blocks on the child or the run ends; `children` are the children
\* running at the call and `said` is what main printed before it
CheckDependency(children, expected_path, error_message, outcome, said, waiting) ==
    /\ console' = console \o said \o <<<<"$", expected_path>>>>
                  \o (IF outcome = "FileNotFoundError"
                      THEN <<<<error_message>>>> ELSE <<>>)
    /\ IF outcome = "ran"
       THEN /\ running' = Started(children, <<expected_path>>)
            /\ started' = Append(started, <<expected_path>>)
            /\ pc' = waiting
            /\ exit_kind' = "none"
       ELSE /\ running' = children
            /\ started' = started
            /\ pc' = "terminated"
            /\ exit_kind' = IF outcome = "FileNotFoundError" THEN "return"
                            ELSE "exception"

\* main up to the first wait: the output directory, then ffmpeg is started
Start ==
    /\ pc = "start"
    /\ IF ~outdir_exists
       THEN /\ console' = console \o <<<<"output directory not found">>>>
            /\ pc' = "terminated"
            /\ exit_kind' = "return"
            /\ UNCHANGED <<running, started>>
       ELSE \E outcome \in DepOutcomes :
                CheckDependency(running, CONFIG.ffmpeg_bin, "ffmpeg not found",
                                outcome, <<<<"$", "cd">>>>, "wait_ffmpeg")
    /\ UNCHANGED <<CONFIG, outdir_exists, checked, process, filepath_exists,
                   yturl, formats, menu, audio_format, video_format,
                   thumbnail_format, download, unit>>

\* ffmpeg has exited: its check returns True, then yt-dlp is started
FfmpegExit ==
    /\ pc = "wait_ffmpeg"
    /\ checked' = checked \cup {CONFIG.ffmpeg_bin}
    /\ \E outcome \in DepOutcomes :
          CheckDependency(Waited(running, <<CONFIG.ffmpeg_bin>>),
                          CONFIG.ytdlp_bin, "yt-dlp not found", outcome,
                          <<>>, "wait_ytdlp")
    /\ UNCHANGED <<CONFIG, outdir_exists, process, filepath_exists, yturl,
                   formats, menu, audio_format, video_format, thumbnail_format,
                   download, unit>>

\* yt-dlp has exited: its check returns True and main asks for the URL
YtdlpExit ==
    /\ pc = "wait_ytdlp"
    /\ checked' = checked \cup {CONFIG.ytdlp_bin}
    /\ running' = Waited(running, <<CONFIG.ytdlp_bin>>)
    /\ console' = Append(console, <<"YouTube URL: ">>)
    /\ pc' = "input_url"
    /\ UNCHANGED <<exit_kind, CONFIG, outdir_exists, started, process,
                   filepath_exists, yturl, formats, menu, audio_format,
                   video_format, thumbnail_format, download, unit>>

\* the user has typed the URL: the probe is started
InputUrl ==
    /\ pc = "input_url"
    /\ \E typed \in UrlInputs : yturl' = Strip(typed)
    /\ console' = Append(console, <<"$", CONFIG.ytdlp_bin, "-j">>)
    /\ running' = Started(running, <<CONFIG.ytdlp_bin, "-j">>)
    /\ started' = Append(started, <<CONFIG.ytdlp_bin, "-j">>)
    /\ pc' = "wait_probe"
    /\ UNCHANGED <<exit_kind, CONFIG, outdir_exists, checked, process,
                   filepath_exists, formats, menu, audio_format, video_format,
                   thumbnail_format, download, unit>>

\* a failed probe is taken for a successful one
ProbeFailedIgnored(returncode) == FALSE

\* process.returncode != 0
ProbeFailed(returncode) == returncode # 0

\* the probe has exited: exit() on a non-zero status, else its output is
\* classified and the audio menu is put up
ProbeExit ==
    /\ pc = "wait_probe"
    /\ running' = Waited(running, <<CONFIG.ytdlp_bin, "-j">>)
    /\ \E returncode \in ProbeReturnCodes, metadata \in ProbeResults :
          /\ process' = [exited |-> TRUE, returncode |-> returncode]
          /\ IF ProbeFailed(returncode)
             THEN /\ console' = console \o <<<<"Critical error:">>, <<"stderr">>>>
                  /\ pc' = "terminated"
                  /\ exit_kind' = "exit"
                  /\ UNCHANGED <<formats, menu>>
             ELSE /\ formats' = Classify(metadata)
                  /\ menu' = AudioMenu(formats'.audio, CONFIG.audio_format)
                  /\ console' = Append(console, <<menu'.title>>)
                  /\ pc' = "pick_audio"
                  /\ exit_kind' = "none"
    /\ UNCHANGED <<CONFIG, outdir_exists, checked, started, filepath_exists,
                   yturl, audio_format, video_format, thumbnail_format,
                   download, unit>>

\* the user has confirmed an option of the audio menu: the video menu
SelectAudio ==
    /\ pc = "pick_audio"
    /\ \E i \in 1..Len(menu.options) : audio_format' = menu.options[i].value
    /\ menu' = VideoMenu(formats.video, CONFIG.video_format)
    /\ console' = Append(console, <<menu'.title>>)
    /\ pc' = "pick_video"
    /\ UNCHANGED <<exit_kind, CONFIG, outdir_exists, checked, running, started,
                   process, filepath_exists, yturl, formats, video_format,
                   thumbnail_format, download, unit>>

\* the user has confirmed an option of the video menu: the thumbnail menu
SelectVideo ==
    /\ pc = "pick_video"
    /\ \E i \in 1..Len(menu.options) : video_format' = menu.options[i].value
    /\ menu' = ThumbnailMenu(CONFIG.thumbnail_format)
    /\ console' = Append(console, <<menu'.title>>)
    /\ pc' = "pick_thumbnail"
    /\ UNCHANGED <<exit_kind, CONFIG, outdir_exists, checked, running, started,
                   process, filepath_exists, yturl, formats, audio_format,
                   thumbnail_format, download, unit>>

\* both selections absent: nothing to download, main returns
SelectThumbnailRejectingEmpty ==
    /\ pc = "pick_thumbnail"
    /\ \E i \in 1..Len(menu.options) :
          thumbnail_format' = <<menu.options[i].value,
                                ThumbnailArgs(menu.options[i].value)>>
    /\ menu' = NoMenu
    /\ IF ~Truthy(audio_format) /\ ~Truthy(video_format)
       THEN /\ pc' = "terminated"
            /\ exit_kind' = "return"
            /\ UNCHANGED <<download, console, running, started>>
       ELSE /\ download' = Invocation(CONFIG, yturl, formats.metadata.filename,
                                      audio_format, video_format, thumbnail_format')
            /\ console' = Append(console, <<"$", CONFIG.ytdlp_bin, "-f">>)
            /\ running' = Started(running, <<CONFIG.ytdlp_bin, "-f">>)
            /\ started' = Append(started, <<CONFIG.ytdlp_bin, "-f">>)
            /\ pc' = "wait_download"
            /\ exit_kind' = "none"
    /\ UNCHANGED <<CONFIG, outdir_exists, checked, process, filepath_exists,
                   yturl, formats, audio_format, video_format, unit>>

\* the user has confirmed an option of the thumbnail menu: the invocation
\* is built and the download is started
SelectThumbnail ==
    /\ pc = "pick_thumbnail"
    /\ \E i \in 1..Len(menu.options) :
          thumbnail_format' = <<menu.options[i].value,
                                ThumbnailArgs(menu.options[i].value)>>
    /\ menu' = NoMenu
    /\ download' = Invocation(CONFIG, yturl, formats.metadata.filename,
                              audio_format, video_format, thumbnail_format')
    /\ console' = Append(console, <<"$", CONFIG.ytdlp_bin, "-f">>)
    /\ running' = Started(running, <<CONFIG.ytdlp_bin, "-f">>)
    /\ started' = Append(started, <<CONFIG.ytdlp_bin, "-f">>)
    /\ pc' = "wait_download"
    /\ UNCHANGED <<exit_kind, CONFIG, outdir_exists, checked, process,
                   filepath_exists, yturl, formats, audio_format, video_format,
                   unit>>

\* the ENTER prompt shown on the failure path too
ReportMissingWithPrompt ==
    [console |-> <<<<"downloaded file not found, expected it here:">>,
                   <<"press ENTER to exit">>>>,
     pc |-> "press_enter", exit_kind |-> "none"]

\* main after the download when filepath does not exist: the report, then
\* return
ReportMissing ==
    [console |-> <<<<"downloaded file not found, expected it here:">>>>,
     pc |-> "terminated", exit_kind |-> "return"]

\* main after the download when filepath exists: where the files are, then
\* the ENTER prompt
ReportStored ==
    [console |-> (IF thumbnail_format[1] # None
                  THEN <<<<"thumbnail stored here:">>>> ELSE <<>>)
                 \o <<<<"download stored here:">>, <<"press ENTER to exit">>>>,
     pc |-> "press_enter", exit_kind |-> "none"]

\* the download has exited, with any status: filepath is looked for
DownloadExit ==
    /\ pc = "wait_download"
    /\ running' = Waited(running, <<CONFIG.ytdlp_bin, "-f">>)
    /\ \E exists \in BOOLEAN :
          LET report == IF exists THEN ReportStored ELSE ReportMissing
          IN  /\ filepath_exists' = exists
              /\ console' = console \o report.console
              /\ pc' = report.pc
              /\ exit_kind' = report.exit_kind
    /\ UNCHANGED <<CONFIG, outdir_exists, checked, started, process, yturl,
                   formats, menu, audio_format, video_format, thumbnail_format,
                   download, unit>>

\* the user has pressed ENTER: main returns
PressEnter ==
    /\ pc = "press_enter"
    /\ pc' = "terminated"
    /\ exit_kind' = "return"
    /\ UNCHANGED <<CONFIG, outdir_exists, checked, running, started, process,
                   filepath_exists, console, yturl, formats, menu,
                   audio_format, video_format, thumbnail_format, download, unit>>

\* the points where main waits for the user
UserWaits == {"input_url", "pick_audio", "pick_video", "pick_thumbnail", "press_enter"}

\* the user interrupts input() or pick.pick(): KeyboardInterrupt ends the run
\* (an interrupt while a child process runs is left out, as are a probe
\* output that is no JSON or lacks a key: each ends the run by an exception)
Interrupt ==
    /\ pc \in UserWaits
    /\ pc' = "terminated"
    /\ exit_kind' = "KeyboardInterrupt"
    /\ menu' = NoMenu
    /\ UNCHANGED <<CONFIG, outdir_exists, checked, running, started, process,
                   filepath_exists, console, yturl, formats, audio_format,
                   video_format, thumbnail_format, download, unit>>

Next ==
    \/ Start
    \/ FfmpegExit
    \/ YtdlpExit
    \/ InputUrl
    \/ ProbeExit
    \/ SelectAudio
    \/ SelectVideo
    \/ SelectThumbnail
    \/ DownloadExit
    \/ PressEnter
    \/ Interrupt

Spec == Init /\ [][Next]_vars

(***************************************************************************)
(* The classifier on its own: request_ytdlp_metadata from json.loads on,   *)
(* for every parsed metadata within the bounds.                            *)
(***************************************************************************)
InitClassify ==
    /\ pc = "classify"
    /\ exit_kind = "none"
    /\ CONFIG = ShippedConfig
    /\ outdir_exists = TRUE
    /\ checked = {}
    /\ running = {}
    /\ started = <<>>
    /\ process = NoProcess
    /\ filepath_exists = FALSE
    /\ console = <<>>
    /\ yturl = <<>>
    /\ formats = NoFormats
    /\ menu = NoMenu
    /\ audio_format = None
    /\ video_format = None
    /\ thumbnail_format = <<None, <<>>>>
    /\ download = NoDownload
    /\ unit \in [filename : {<<"c", "l", "i", "p">>},
                 formats : SeqsUpTo(RawFormats, MaxFormats),
                 thumbnails : ThumbnailLists]

\* formats = request_ytdlp_metadata's result for the parsed metadata
ClassifyMetadata ==
    /\ pc = "classify"
    /\ formats' = Classify(unit)
    /\ pc' = "classified"
    /\ UNCHANGED <<exit_kind, CONFIG, outdir_exists, checked, running, started,
                   process, filepath_exists, console, yturl, menu, audio_format,
                   video_format, thumbnail_format, download, unit>>

NextClassify == ClassifyMetadata

SpecClassify == InitClassify /\ [][NextClassify]_vars

(***************************************************************************)
(* The menus on their own: each pick_yt_*_format up to its call of         *)
(* pick.pick, for every configured default and every candidate list a      *)
(* probe within the bounds gives.                                          *)
(***************************************************************************)
Configs ==
    {[ShippedConfig EXCEPT !.audio_format = a, !.video_format = v,
                           !.thumbnail_format = t] :
        a \in AudioDefaults, v \in VideoDefaults, t \in ThumbnailDefaults}

InitPick ==
    /\ pc = "pick"
    /\ exit_kind = "none"
    /\ CONFIG \in Configs
    /\ outdir_exists = TRUE
    /\ checked = {}
    /\ running = {}
    /\ started = <<>>
    /\ process = NoProcess
    /\ filepath_exists = FALSE
    /\ console = <<>>
    /\ yturl = <<>>
    /\ \E fmts \in SeqsUpTo(ProbeFormats, MaxCandidates) :
          formats = Classify([filename |-> <<"c", "l", "i", "p">>,
                              formats |-> fmts, thumbnails |-> <<>>])
    /\ menu = NoMenu
    /\ audio_format = None
    /\ video_format = None
    /\ thumbnail_format = <<None, <<>>>>
    /\ download = NoDownload
    /\ unit = NoFormats.metadata

\* pick_yt_audio_format(formats["audio"], default=CONFIG["audio_format"])
PickAudio ==
    /\ pc = "pick"
    /\ menu' = AudioMenu(formats.audio, CONFIG.audio_format)
    /\ pc' = "picking"
    /\ UNCHANGED <<exit_kind, CONFIG, outdir_exists, checked, running, started,
                   process, filepath_exists, console, yturl, formats,
                   audio_format, video_format, thumbnail_format, download, unit>>

\* pick_yt_video_format(formats["video"], default=CONFIG["video_format"])
PickVideo ==
    /\ pc = "pick"
    /\ menu' = VideoMenu(formats.video, CONFIG.video_format)
    /\ pc' = "picking"
    /\ UNCHANGED <<exit_kind, CONFIG, outdir_exists, checked, running, started,
                   process, filepath_exists, console, yturl, formats,
                   audio_format, video_format, thumbnail_format, download, unit>>

\* pick_yt_thumbnail_format(metadata, default=CONFIG["thumbnail_format"])
PickThumbnail ==
    /\ pc = "pick"
    /\ menu' = ThumbnailMenu(CONFIG.thumbnail_format)
    /\ pc' = "picking"
    /\ UNCHANGED <<exit_kind, CONFIG, outdir_exists, checked, running, started,
                   process, filepath_exists, console, yturl, formats,
                   audio_format, video_format, thumbnail_format, download, unit>>

NextPick ==
    \/ PickAudio
    \/ PickVideo
    \/ PickThumbnail

SpecPick == InitPick /\ [][NextPick]_vars

(***************************************************************************)
(* Vocabulary of the properties.                                           *)
(***************************************************************************)
Said(line) == \E i \in 1..Len(console) : console[i] = line

WasStarted(child) == \E i \in 1..Len(started) : started[i] = child

IsPrefix(a, b) == Len(a) <= Len(b) /\ a = SubSeq(b, 1, Len(a))

EndsWith(s, suffix) ==
    Len(suffix) <= Len(s) /\ SubSeq(s, Len(s) - Len(suffix) + 1, Len(s)) = suffix

\* a selection that is not "no audio" / "no video" / "no thumbnail"
Present(selection) == selection # None

\* the present ones of two selections, `first` before `second`, with "+"
\* between them when both are present
PlusJoined(first, second) ==
    IF Present(first) /\ Present(second) THEN first \o <<"+">> \o second
    ELSE IF Present(first) THEN first
    ELSE IF Present(second) THEN second
    ELSE <<>>

\* a file name without its extension: the part before the last dot, when
\* that dot is neither the first nor the last character
Stem(name) ==
    LET inner == {i \in 2..(Len(name) - 1) : name[i] = "."}
    IN  IF inner = {} \/ name[Len(name)] = "." THEN name
        ELSE SubSeq(name, 1, (CHOOSE i \in inner : \A j \in inner : j <= i) - 1)

ProbeChild == <<"yt-dlp", "-j">>
DownloadChild == <<"yt-dlp", "-f">>
MenuTitles == {<<"Select audio">>, <<"Select video">>, <<"Select thumbnail">>}
EnterPrompt == <<"press ENTER to exit">>
UrlPrompt == <<"YouTube URL: ">>
MissingReport == <<"downloaded file not found, expected it here:">>

s_140 == <<"1", "4", "0">>
s_137 == <<"1", "3", "7">>

(***************************************************************************)
(* C1: the format expression.                                              *)
(***************************************************************************)
\* C1, as stated: the format expression of the download invocation is the
\* non-absent selections joined with "+", the video selection before the
\* audio selection ("137+140" for audio "140" and video "137").
C1_FormatVideoThenAudio ==
    download.invoked => download.fmt = PlusJoined(video_format, audio_format)

\* C1, amended: the format expression of the download invocation is the
\* non-absent selections joined with "+", the audio selection before the
\* video selection: "140+137" for audio "140" and video "137", and a single
\* present selection alone, with no "+".
C1_FormatAudioThenVideo ==
    download.invoked =>
        /\ download.fmt = PlusJoined(audio_format, video_format)
        /\ (audio_format = s_140 /\ video_format = s_137) =>
               download.fmt = <<"1", "4", "0", "+", "1", "3", "7">>
        /\ (Present(audio_format) # Present(video_format)) =>
               \A i \in 1..Len(download.fmt) : download.fmt[i] # "+"

C1_Witness ==
    /\ download.invoked
    /\ audio_format = s_140
    /\ video_format = s_137
    /\ download.fmt = <<"1", "4", "0", "+", "1", "3", "7">>

(***************************************************************************)
(* C2: the extra flags and the predicted extension.                        *)
(***************************************************************************)
\* C2: the extra flags of the download invocation are the thumbnail flag
\* list followed by one mode suffix, and the predicted path is the probe's
\* file name with the extension of that mode: -x --audio-format mp3 and
\* .mp3 when the audio selection is present and the video selection is
\* none, --merge-output-format mp4 and .mp4 in every other case.
C2_FlagsAndExtension ==
    download.invoked =>
        LET audioOnly == Present(audio_format) /\ ~Present(video_format)
            suffix == IF audioOnly THEN <<"-x", "--audio-format", "mp3">>
                      ELSE <<"--merge-output-format", "mp4">>
            ext == IF audioOnly THEN <<".", "m", "p", "3">>
                   ELSE <<".", "m", "p", "4">>
        IN  /\ download.ytdlp_args = thumbnail_format[2] \o suffix
            /\ download.filepath = Stem(formats.metadata.filename) \o ext

C2_Witness ==
    /\ download.invoked
    /\ audio_format = s_140
    /\ video_format = None
    /\ thumbnail_format[1] = s_embed
    /\ download.ytdlp_args = <<"--embed-thumbnail", "-x", "--audio-format", "mp3">>
    /\ formats.metadata.filename = <<"a", ".", "b", ".", "c">>
    /\ download.filepath = <<"a", ".", "b", ".", "m", "p", "3">>

(***************************************************************************)
(* C3: the classifier.                                                     *)
(***************************************************************************)
\* C3, as stated: the audio list is the order-preserving subsequence of the
\* formats whose id is all-digit and whose audio codec is not "none", the
\* video list that of the formats whose id is all-digit, whose audio codec
\* is "none" and whose video codec is not "none".
C3_AllDigitIds ==
    pc = "classified" =>
        /\ formats.audio =
             SelectSeq(unit.formats,
                       LAMBDA f : IsDigit(f.format_id) /\ f.acodec # "none")
        /\ formats.video =
             SelectSeq(unit.formats,
                       LAMBDA f : /\ IsDigit(f.format_id)
                                  /\ f.acodec = "none"
                                  /\ f.vcodec # "none")

\* C3, amended: the same with "all-digit" read of the id stripped of
\* leading and trailing white space; hence no format is in both lists, a
\* format with both codecs is in the audio list only, and a format whose
\* stripped id is not all-digit is in neither list.
C3_StrippedDigitIds ==
    pc = "classified" =>
        LET inAudio(f) == \E i \in 1..Len(formats.audio) : formats.audio[i] = f
            inVideo(f) == \E i \in 1..Len(formats.video) : formats.video[i] = f
        IN  /\ formats.audio =
                 SelectSeq(unit.formats,
                           LAMBDA f : /\ IsDigit(Strip(f.format_id))
                                      /\ f.acodec # "none")
            /\ formats.video =
                 SelectSeq(unit.formats,
                           LAMBDA f : /\ IsDigit(Strip(f.format_id))
                                      /\ f.acodec = "none"
                                      /\ f.vcodec # "none")
            /\ \A i \in 1..Len(unit.formats) :
                  LET f == unit.formats[i]
                  IN  /\ ~(inAudio(f) /\ inVideo(f))
                      /\ (inAudio(f) /\ f.vcodec # "none") => ~inVideo(f)
                      /\ ~IsDigit(Strip(f.format_id)) => ~inAudio(f) /\ ~inVideo(f)

C3_Witness ==
    /\ pc = "classified"
    /\ unit.formats =
         <<[format_id |-> <<"h", "l", "s">>, acodec |-> "opus", vcodec |-> "none"],
           [format_id |-> <<" ", "1", "8", " ">>, acodec |-> "opus", vcodec |-> "avc1"]>>
    /\ formats.audio =
         <<[format_id |-> <<" ", "1", "8", " ">>, acodec |-> "opus", vcodec |-> "avc1"]>>
    /\ formats.video = <<>>

(***************************************************************************)
(* C4: a failed probe ends the run.                                        *)
(***************************************************************************)
\* C4: once the probe has exited with a non-zero status the run is over:
\* no menu is or was shown, the download tool was not started, and the
\* probe was started exactly once.
C4_FailedProbeEndsRun ==
    (process.exited /\ process.returncode # 0) =>
        /\ pc = "terminated"
        /\ exit_kind = "exit"
        /\ menu = NoMenu
        /\ \A t \in MenuTitles : ~Said(t)
        /\ ~WasStarted(DownloadChild)
        /\ ~download.invoked
        /\ Cardinality({i \in 1..Len(started) : started[i] = ProbeChild}) = 1
        /\ running = {}

C4_Witness ==
    /\ process.exited
    /\ process.returncode = 1
    /\ Said(<<"Critical error:">>)
    /\ pc = "terminated"

(***************************************************************************)
(* C5: nothing before the output directory and the dependency checks.      *)
(***************************************************************************)
\* C5: the URL prompt, the probe, the menus and the download are reached
\* only if the output directory exists and both dependency checks (each
\* binary started with no arguments) succeeded; with the output directory
\* missing no child process is started at all, and once a binary was not
\* found the probe is never started.
C5_ChecksComeFirst ==
    /\ (\/ Said(UrlPrompt)
        \/ WasStarted(ProbeChild)
        \/ WasStarted(DownloadChild)
        \/ menu # NoMenu
        \/ \E t \in MenuTitles : Said(t)) =>
           /\ outdir_exists
           /\ checked = {"ffmpeg", "yt-dlp"}
           /\ IsPrefix(<<<<"ffmpeg">>, <<"yt-dlp">>>>, started)
    /\ ~outdir_exists => started = <<>> /\ running = {}
    /\ (Said(<<"ffmpeg not found">>) \/ Said(<<"yt-dlp not found">>)) =>
           /\ pc = "terminated"
           /\ ~Said(UrlPrompt)
           /\ ~WasStarted(ProbeChild)
           /\ ~WasStarted(DownloadChild)

C5_Witness ==
    /\ pc = "wait_download"
    /\ outdir_exists
    /\ checked = {"ffmpeg", "yt-dlp"}
    /\ WasStarted(ProbeChild)
    /\ WasStarted(DownloadChild)

(***************************************************************************)
(* C6: the ENTER prompt.                                                   *)
(***************************************************************************)
\* C6, as stated: every run that has terminated has shown the final
\* "press ENTER to exit" prompt, the run whose predicted output path does
\* not exist after the download included.
C6_EveryEndShowsPrompt == pc = "terminated" => Said(EnterPrompt)

\* C6, amended: the "press ENTER to exit" prompt is shown exactly when the
\* download has exited and the predicted output path exists.  When the path
\* does not exist the failure is reported and main returns at once, without
\* the prompt; a run that ends before the download shows no prompt either.
C6_PromptOnlyAfterStoredDownload ==
    LET downloadExited == download.invoked /\ pc # "wait_download"
    IN  /\ Said(EnterPrompt) <=> (downloadExited /\ filepath_exists)
        /\ (downloadExited /\ ~filepath_exists) =>
              /\ Said(MissingReport)
              /\ pc = "terminated"
              /\ exit_kind = "return"
        /\ pc = "press_enter" => Said(EnterPrompt)

C6_Witness ==
    /\ pc = "terminated"
    /\ exit_kind = "return"
    /\ download.invoked
    /\ ~filepath_exists
    /\ Said(MissingReport)
    /\ ~Said(EnterPrompt)

(***************************************************************************)
(* C7: the initial cursor of the menus.                                    *)
(***************************************************************************)
\* C7: the initial cursor index of a menu is the index of the first option
\* whose value equals the default, when a default is supplied and matches
\* an option; otherwise it is 0 for the audio and video menus and 2 for the
\* thumbnail menu.  It is always an index of an option, and the default
\* "best" of the audio and video menus, which matches no option, falls back
\* to 0.
C7_InitialCursor ==
    menu # NoMenu =>
        LET matching == {i \in 1..Len(menu.options) :
                            menu.options[i].value = menu.default}
            builtin == IF menu.title = "Select thumbnail" THEN 2 ELSE 0
        IN  /\ menu.default_index =
                 IF menu.default # None /\ matching # {}
                 THEN (CHOOSE i \in matching : \A j \in matching : i <= j) - 1
                 ELSE builtin
            /\ menu.default_index \in 0..(Len(menu.options) - 1)
            /\ (menu.default = s_best /\ menu.title # "Select thumbnail") =>
                   menu.default_index = 0

C7_Witness ==
    /\ menu.title = "Select audio"
    /\ menu.default = s_140
    /\ Len(menu.options) = 4
    /\ menu.options[3].value = s_140
    /\ menu.options[4].value = s_140
    /\ menu.default_index = 2

(***************************************************************************)
(* C8: the thumbnail flags.                                                *)
(***************************************************************************)
\* C8: the thumbnail selection is one of "best", "embed" and none, and its
\* flag list is a function of it: --write-thumbnail --convert-thumbnails jpg
\* for "best", --embed-thumbnail for "embed", the empty list for none.
C8_ThumbnailFlags ==
    /\ thumbnail_format[1] \in {s_best, s_embed, None}
    /\ thumbnail_format[1] = s_best =>
           thumbnail_format[2] = <<"--write-thumbnail", "--convert-thumbnails", "jpg">>
    /\ thumbnail_format[1] = s_embed =>
           thumbnail_format[2] = <<"--embed-thumbnail">>
    /\ thumbnail_format[1] = None => thumbnail_format[2] = <<>>

C8_Witness ==
    /\ pc = "wait_download"
    /\ thumbnail_format = <<s_embed, <<"--embed-thumbnail">>>>

(***************************************************************************)
(* C9: one stage after the other, one child at a time.                     *)
(***************************************************************************)
\* C9: the children are started in the order ffmpeg, yt-dlp, probe,
\* download and the menus shown in the order audio, video, thumbnail, each
\* at most once; the probe has exited before the audio menu, the thumbnail
\* menu is answered before the download; at most one child runs at any
\* moment, and none runs while the program waits for the user.
C9_StagesInOrder ==
    /\ IsPrefix(started, <<<<"ffmpeg">>, <<"yt-dlp">>, ProbeChild, DownloadChild>>)
    /\ IsPrefix(SelectSeq(console, LAMBDA line : line \in MenuTitles),
                <<<<"Select audio">>, <<"Select video">>, <<"Select thumbnail">>>>)
    /\ Said(<<"Select audio">>) =>
           WasStarted(ProbeChild) /\ process.exited /\ ProbeChild \notin running
    /\ WasStarted(DownloadChild) => Said(<<"Select thumbnail">>) /\ menu = NoMenu
    /\ Cardinality(running) <= 1
    /\ (menu # NoMenu \/ pc \in UserWaits) => running = {}

C9_Witness ==
    /\ pc = "press_enter"
    /\ started = <<<<"ffmpeg">>, <<"yt-dlp">>, ProbeChild, DownloadChild>>
    /\ Said(<<"Select thumbnail">>)
    /\ running = {}

(***************************************************************************)
(* C10: "no audio" together with "no video".                               *)
(***************************************************************************)
\* C10: the step that answers the thumbnail menu after "no audio" and "no
\* video" were selected does not end the run: it starts the download, with
\* an empty format expression, the flags --merge-output-format mp4 after
\* the thumbnail flags, and a predicted path ending in .mp4.
C10_BothNoneStillDownloads ==
    [][(/\ pc = "pick_thumbnail"
        /\ audio_format = None
        /\ video_format = None
        /\ exit_kind' # "KeyboardInterrupt") =>
           /\ pc' = "wait_download"
           /\ DownloadChild \in running'
           /\ download'.invoked
           /\ download'.fmt = <<>>
           /\ download'.ytdlp_args =
                thumbnail_format'[2] \o <<"--merge-output-format", "mp4">>
           /\ EndsWith(download'.filepath, <<".", "m", "p", "4">>)]_vars

C10_Witness ==
    /\ pc = "wait_download"
    /\ audio_format = None
    /\ video_format = None
    /\ download.invoked
    /\ download.fmt = <<>>
    /\ download.ytdlp_args = <<"--merge-output-format", "mp4">>
    /\ download.filepath = <<"c", "l", "i", "p", ".", "m", "p", "4">>

====
